---- MODULE Spec2Model ----
(***************************************************************************)
(* A model of src/src/App.jsx: the App component's state, its three        *)
(* effects, the Search Resolver (fetchMovies) and the Trending Resolver    *)
(* (fetchTrendingMovies).  Each async function is cut at its awaits: one   *)
(* action per resumption.  The network, the cache store (appwrite.js) and  *)
(* the user are the environment: their answers are chosen with \E.         *)
(***************************************************************************)
EXTENDS Naturals, Sequences, FiniteSets, TLC

\* How many times the user changes the search input.
MaxChanges == 1

\* The same, where no awaited call settles (SpecDebounce).
MaxBurst == 3

(***************************************************************************)
(* JavaScript values: undefined, strings and arrays, with truthiness and   *)
(* the a || b operator.                                                    *)
(***************************************************************************)
Undefined == [tag |-> "undefined"]
Str(s) == [tag |-> "string", val |-> s]
Arr(s) == [tag |-> "array", val |-> s]

Truthy(v) ==
    CASE v.tag = "undefined" -> FALSE
      [] v.tag = "string" -> v.val # ""
      [] OTHER -> TRUE

Or(a, b) == IF Truthy(a) THEN a ELSE b

\* String.prototype.trim on a string held as a sequence of characters.
RECURSIVE TrimLeft(_)
TrimLeft(s) == IF s # <<>> /\ Head(s) = " " THEN TrimLeft(Tail(s)) ELSE s

RECURSIVE TrimRight(_)
TrimRight(s) ==
    IF s # <<>> /\ s[Len(s)] = " " THEN TrimRight(SubSeq(s, 1, Len(s) - 1)) ELSE s

Trim(s) == TrimRight(TrimLeft(s))

(***************************************************************************)
(* The inputs of the environment.                                          *)
(***************************************************************************)
\* Values of import.meta.env.VITE_TMDB_API_KEY.
ApiKeys == {Undefined, Str(""), Str("key")}

\* A UTF-16 code unit that is half of a surrogate pair, standing alone.
LoneSurrogate == "<D800>"

\* What the user types (sequences of characters): nothing, white space, text
\* with a reserved character, text that is not well-formed UTF-16.
Terms == {<<>>, <<" ">>, <<"a", "&">>, <<LoneSurrogate>>}

\* Movie records are opaque: an id stands for one.  1, 2 come from the
\* metadata provider, 3, 4 from the cache store.
ProviderLists == {<<>>, <<1>>, <<2, 1>>}
CacheLists == {<<>>, <<3, 4>>}

\* How an awaited fetch() settles: rejected, a non-2xx response, a 2xx response.
FetchOutcomes == {"reject", "notok", "ok"}

\* The parsed bodies of a 2xx response of the search/discover endpoints.
NoData == [Response |-> Undefined, Error |-> Undefined, results |-> Undefined]
SearchBodies ==
    {[Response |-> Str("False"), Error |-> Str("Movie not found!"), results |-> Undefined],
     [Response |-> Str("False"), Error |-> Undefined, results |-> Arr(<<1>>)],
     NoData}
    \cup {[Response |-> Undefined, Error |-> Undefined, results |-> Arr(l)] : l \in ProviderLists}

\* The parsed bodies of a 2xx response of the trending endpoint.
TrendingBodies ==
    {[results |-> Undefined]} \cup {[results |-> Arr(l)] : l \in ProviderLists}

\* What an awaited getTrendingMovies() settles to: a rejection, or a value.
Threw == [tag |-> "threw"]
CacheAnswers == {Threw, Undefined} \cup {Arr(l) : l \in CacheLists}

\* Not yet answered.
None == [tag |-> "none"]

ErrFetch == "Error fetching movies. Please try again later."
ErrFlag == "Failed to fetch movies"

VARIABLES
    API_KEY,              \* line 13
    searchTerm,           \* line 24
    debouncedSearchTerm,  \* line 25
    errorMessage,         \* line 26
    movieList,            \* line 27
    trendingMovies,       \* line 28
    isLoading,            \* line 29
    effects,              \* how many of the three effects have run on mount
    timer,                \* the pending setTimeout of the debounce effect
    changes,              \* input changes made so far
    debouncedChanges,     \* changes of debouncedSearchTerm so far
    calls,                \* the invocations of fetchMovies, in start order
    lastDone,             \* the invocation of fetchMovies that finished last
    tpc,                  \* where fetchTrendingMovies stands
    tRuns,                \* invocations of fetchTrendingMovies
    cacheReads,           \* calls of getTrendingMovies
    liveCalls,            \* calls of fetch on the trending endpoint
    saveCalls,            \* evaluations of the saveTrendingMovies call
    read1, live, read2    \* the answers the Trending Resolver received

searchVars == <<errorMessage, movieList, isLoading, calls, lastDone>>
inputVars == <<searchTerm, debouncedSearchTerm, timer, changes, debouncedChanges>>
trendingVars == <<trendingMovies, tpc, tRuns, cacheReads, liveCalls, saveCalls,
                  read1, live, read2>>
vars == <<API_KEY, effects, searchVars, inputVars, trendingVars>>

Init ==
    /\ API_KEY \in ApiKeys
    /\ searchTerm = <<>>
    /\ debouncedSearchTerm = <<>>
    /\ errorMessage = ""
    /\ movieList = Arr(<<>>)
    /\ trendingMovies = Arr(<<>>)
    /\ isLoading = FALSE
    /\ effects = 0
    /\ timer = [armed |-> FALSE, value |-> <<>>]
    /\ changes = 0
    /\ debouncedChanges = 0
    /\ calls = <<>>
    /\ lastDone = 0
    /\ tpc = "idle"
    /\ tRuns = 0
    /\ cacheReads = 0
    /\ liveCalls = 0
    /\ saveCalls = 0
    /\ read1 = None
    /\ live = None
    /\ read2 = None

(***************************************************************************)
(* The Search Resolver, fetchMovies (lines 31-69).                         *)
(***************************************************************************)
InFlight == {j \in DOMAIN calls : calls[j].pc # "done"}

\* HasCredential without the test.
HasCredentialAlways(key) == TRUE

\* HasCredential that lets every defined value pass.
HasCredentialDefined(key) == key # Undefined

\* line 36: !API_KEY is false.
HasCredential(key) == Truthy(key)

\* line 40: the endpoint is the keyword search iff the query is truthy.
IsSearch(query) == query # <<>>

\* encodeURIComponent of one character: the unreserved ones stay, the others
\* become the %XX of their UTF-8 bytes.
EncodeChar(c) ==
    CASE c = " " -> <<"%", "2", "0">>
      [] c = "&" -> <<"%", "2", "6">>
      [] c = "%" -> <<"%", "2", "5">>
      [] OTHER -> <<c>>

\* encodeURIComponent throws a URIError on a lone surrogate.
Encodable(s) == \A k \in DOMAIN s : s[k] # LoneSurrogate

\* EncodeURIComponent leaving the string as it is.
RECURSIVE EncodeURIComponentRaw(_)
EncodeURIComponentRaw(s) ==
    IF s = <<>> THEN <<>> ELSE <<Head(s)>> \o EncodeURIComponentRaw(Tail(s))

\* line 41: encodeURIComponent(query), for an encodable query.
RECURSIVE EncodeURIComponent(_)
EncodeURIComponent(s) ==
    IF s = <<>> THEN <<>> ELSE EncodeChar(Head(s)) \o EncodeURIComponent(Tail(s))

\* Lines 40-42: the endpoint requested, as its path and its query parameter.
Endpoint(query) ==
    IF IsSearch(query)
      THEN [path |-> "/search/movie", query |-> EncodeURIComponent(query)]
      ELSE [path |-> "/discover/movie", query |-> <<>>]

\* IsFlagged comparing with the wrong spelling of the flag.
IsFlaggedLowerCase(data) == data.Response = Str("false")

\* line 51: the application-level error flag of a 2xx body.
IsFlagged(data) == data.Response = Str("False")

\* line 52: data.Error || "Failed to fetch movies".
FlagMessage(data) == Or(data.Error, Str(ErrFlag)).val

\* line 57: data.results || [].
ResultsOrEmpty(data) == Or(data.results, Arr(<<>>))

\* CountsSearch without the test of the query.
CountsSearchAnyQuery(query, results) == Len(results) > 0

\* line 59: query && data.results.length > 0, for data.results an array.
CountsSearch(query, results) == IsSearch(query) /\ Len(results) > 0

\* line 60: the arguments of updateSearchCount.
CountKey(query, results) == <<query, results[1]>>

\* The record of a new invocation; requests are the fetches it has issued.
NewCall(query, pc, outcome) ==
    [query |-> query, pc |-> pc, outcome |-> outcome, data |-> NoData,
     requests |-> IF pc = "done" THEN <<>> ELSE <<Endpoint(query)>>,
     writes |-> <<>>, peers |-> InFlight]

\* The calls with the new one made a peer of those in flight.
WithPeer(i) ==
    [j \in DOMAIN calls |->
        IF j \in InFlight THEN [calls[j] EXCEPT !.peers = @ \cup {i}] ELSE calls[j]]

\* Lines 31-43: a call of fetchMovies(query), up to its first await.  With no
\* credential it throws at line 37, with a query that cannot be encoded at
\* line 41, and runs catch and finally at once.
FetchMoviesStart(query) ==
    LET i == Len(calls) + 1 IN
    /\ IF ~HasCredential(API_KEY)
         THEN /\ calls' = Append(WithPeer(i), NewCall(query, "done", "ConfigError"))
              /\ errorMessage' = ErrFetch
              /\ isLoading' = FALSE
              /\ lastDone' = i
         ELSE IF IsSearch(query) /\ ~Encodable(query)
         THEN /\ calls' = Append(WithPeer(i), NewCall(query, "done", "URIError"))
              /\ errorMessage' = ErrFetch
              /\ isLoading' = FALSE
              /\ lastDone' = i
         ELSE /\ calls' = Append(WithPeer(i), NewCall(query, "fetch", "none"))
              /\ errorMessage' = ""
              /\ isLoading' = TRUE
              /\ UNCHANGED lastDone
    /\ UNCHANGED movieList

\* FetchMoviesCatch without the finally of line 67.
FetchMoviesCatchNoFinally(i, outcome) ==
    /\ calls' = [calls EXCEPT ![i].pc = "done", ![i].outcome = outcome]
    /\ errorMessage' = ErrFetch
    /\ lastDone' = i
    /\ UNCHANGED <<isLoading, movieList>>

\* FetchMoviesCatch that also clears the list.
FetchMoviesCatchClearing(i, outcome) ==
    /\ calls' = [calls EXCEPT ![i].pc = "done", ![i].outcome = outcome]
    /\ errorMessage' = ErrFetch
    /\ isLoading' = FALSE
    /\ lastDone' = i
    /\ movieList' = Arr(<<>>)

\* Lines 63-68: catch and finally of invocation i.
FetchMoviesCatch(i, outcome) ==
    /\ calls' = [calls EXCEPT ![i].pc = "done", ![i].outcome = outcome]
    /\ errorMessage' = ErrFetch
    /\ isLoading' = FALSE
    /\ lastDone' = i
    /\ UNCHANGED movieList

\* Lines 43-47: the awaited fetch of invocation i settles.
FetchReturn(i, r) ==
    /\ effects = 3
    /\ i \in DOMAIN calls
    /\ calls[i].pc = "fetch"
    /\ IF r = "ok"
         THEN /\ calls' = [calls EXCEPT ![i].pc = "json"]
              /\ UNCHANGED <<errorMessage, movieList, isLoading, lastDone>>
         ELSE FetchMoviesCatch(i, "TransportError")
    /\ UNCHANGED <<API_KEY, effects, inputVars, trendingVars>>

\* Line 49: response.json() of invocation i rejects.
JsonFail(i) ==
    /\ effects = 3
    /\ i \in DOMAIN calls
    /\ calls[i].pc = "json"
    /\ FetchMoviesCatch(i, "TransportError")
    /\ UNCHANGED <<API_KEY, effects, inputVars, trendingVars>>

\* Lines 49-61: response.json() of invocation i resolves to data.
JsonReturn(i, data) ==
    /\ effects = 3
    /\ i \in DOMAIN calls
    /\ calls[i].pc = "json"
    /\ LET query == calls[i].query IN
       IF IsFlagged(data)
         THEN \* lines 52-54, then finally
              /\ errorMessage' = FlagMessage(data)
              /\ movieList' = Arr(<<>>)
              /\ isLoading' = FALSE
              /\ lastDone' = i
              /\ calls' = [calls EXCEPT ![i].pc = "done", ![i].data = data,
                                        ![i].outcome = "SemanticError"]
         ELSE /\ movieList' = ResultsOrEmpty(data)
              /\ IF IsSearch(query) /\ ~Truthy(data.results)
                   THEN \* line 59 reads .length of undefined: a TypeError
                        /\ errorMessage' = ErrFetch
                        /\ isLoading' = FALSE
                        /\ lastDone' = i
                        /\ calls' = [calls EXCEPT ![i].pc = "done", ![i].data = data,
                                                  ![i].outcome = "TypeError"]
                   ELSE IF Truthy(data.results) /\ CountsSearch(query, data.results.val)
                   THEN \* line 60: updateSearchCount is called and awaited
                        /\ calls' = [calls EXCEPT
                              ![i].pc = "write", ![i].data = data,
                              ![i].writes = Append(@, CountKey(query, data.results.val))]
                        /\ UNCHANGED <<errorMessage, isLoading, lastDone>>
                   ELSE /\ isLoading' = FALSE
                        /\ lastDone' = i
                        /\ calls' = [calls EXCEPT ![i].pc = "done", ![i].data = data,
                                                  ![i].outcome = "Success"]
                        /\ UNCHANGED errorMessage
    /\ UNCHANGED <<API_KEY, effects, inputVars, trendingVars>>

\* Lines 60-68: the awaited updateSearchCount of invocation i settles.
WriteReturn(i, ok) ==
    /\ effects = 3
    /\ i \in DOMAIN calls
    /\ calls[i].pc = "write"
    /\ IF ok
         THEN /\ calls' = [calls EXCEPT ![i].pc = "done", ![i].outcome = "Success"]
              /\ isLoading' = FALSE
              /\ lastDone' = i
              /\ UNCHANGED <<errorMessage, movieList>>
         ELSE FetchMoviesCatch(i, "PersistenceError")
    /\ UNCHANGED <<API_KEY, effects, inputVars, trendingVars>>

(***************************************************************************)
(* The Trending Resolver, fetchTrendingMovies (lines 71-112).              *)
(***************************************************************************)
Failed == [tag |-> "failed"]

\* CacheHit with the comparison turned round.
CacheHitWhenEmpty(v) == Truthy(v) /\ Len(v.val) = 0

\* line 75: appwriteTrending && appwriteTrending.length > 0.
CacheHit(v) == Truthy(v) /\ Len(v.val) > 0

\* line 93: data.results || [].
TrendingResults(data) == Or(data.results, Arr(<<>>))

\* line 98: trendingResults.length > 0.
ShouldSave(results) == Len(results.val) > 0

\* FallbackValue appending the cache's entries to the list already shown.
FallbackValueMerged(v) == Arr(trendingMovies.val \o Or(v, Arr(<<>>)).val)

\* FallbackValue without the || [].
FallbackValueRaw(v) == v

\* line 107: fallbackTrending || [].
FallbackValue(v) == Or(v, Arr(<<>>))

\* Lines 71-74: a call of fetchTrendingMovies(), up to its first await.
FetchTrendingStart ==
    /\ tRuns' = tRuns + 1
    /\ cacheReads' = cacheReads + 1
    /\ tpc' = "read1"
    /\ UNCHANGED <<trendingMovies, liveCalls, saveCalls, read1, live, read2>>

\* Lines 102-106: the catch block, up to its await of getTrendingMovies().
FetchTrendingCatch ==
    /\ cacheReads' = cacheReads + 1
    /\ tpc' = "read2"

\* Lines 74-86: the first getTrendingMovies() settles.
Read1Return(a) ==
    /\ effects = 3
    /\ tpc = "read1"
    /\ read1' = a
    /\ IF a = Threw
         THEN /\ FetchTrendingCatch
              /\ UNCHANGED <<trendingMovies, liveCalls>>
         ELSE IF CacheHit(a)
         THEN \* lines 76-77
              /\ trendingMovies' = a
              /\ tpc' = "done"
              /\ UNCHANGED <<cacheReads, liveCalls>>
         ELSE IF ~Truthy(API_KEY)
         THEN \* line 82 throws
              /\ FetchTrendingCatch
              /\ UNCHANGED <<trendingMovies, liveCalls>>
         ELSE \* line 86
              /\ liveCalls' = liveCalls + 1
              /\ tpc' = "live"
              /\ UNCHANGED <<trendingMovies, cacheReads>>
    /\ UNCHANGED <<API_KEY, effects, searchVars, inputVars, tRuns, saveCalls, live, read2>>

\* Lines 86-90: the awaited fetch of the trending feed settles.
LiveReturn(r) ==
    /\ effects = 3
    /\ tpc = "live"
    /\ IF r = "ok"
         THEN /\ tpc' = "livejson"
              /\ UNCHANGED <<cacheReads, live>>
         ELSE /\ FetchTrendingCatch
              /\ live' = Failed
    /\ UNCHANGED <<API_KEY, effects, searchVars, inputVars, trendingMovies, tRuns,
                   liveCalls, saveCalls, read1, read2>>

\* Line 92: response.json() of the trending feed rejects.
LiveJsonFail ==
    /\ effects = 3
    /\ tpc = "livejson"
    /\ FetchTrendingCatch
    /\ live' = Failed
    /\ UNCHANGED <<API_KEY, effects, searchVars, inputVars, trendingMovies, tRuns,
                   liveCalls, saveCalls, read1, read2>>

\* Lines 92-100: response.json() of the trending feed resolves to data.
\* saveTrendingMovies is neither imported (line 9) nor declared in the file:
\* evaluating the call of line 99 throws a ReferenceError, caught at line 102.
LiveJsonReturn(data) ==
    /\ effects = 3
    /\ tpc = "livejson"
    /\ live' = TrendingResults(data)
    /\ trendingMovies' = TrendingResults(data)
    /\ IF ShouldSave(TrendingResults(data))
         THEN /\ saveCalls' = saveCalls + 1
              /\ FetchTrendingCatch
         ELSE /\ tpc' = "done"
              /\ UNCHANGED <<saveCalls, cacheReads>>
    /\ UNCHANGED <<API_KEY, effects, searchVars, inputVars, tRuns, liveCalls, read1, read2>>

\* Read2Return whose inner catch shows the Search Resolver's error message.
Read2ReturnSurfacing(a) ==
    /\ effects = 3
    /\ tpc = "read2"
    /\ read2' = a
    /\ tpc' = "done"
    /\ IF a = Threw
         THEN /\ errorMessage' = ErrFetch
              /\ UNCHANGED trendingMovies
         ELSE /\ trendingMovies' = FallbackValue(a)
              /\ UNCHANGED errorMessage
    /\ UNCHANGED <<API_KEY, effects, movieList, isLoading, calls, lastDone, inputVars,
                   tRuns, cacheReads, liveCalls, saveCalls, read1, live>>

\* Lines 106-110: the second getTrendingMovies() settles.
Read2Return(a) ==
    /\ effects = 3
    /\ tpc = "read2"
    /\ read2' = a
    /\ tpc' = "done"
    /\ IF a = Threw
         THEN UNCHANGED trendingMovies
         ELSE trendingMovies' = FallbackValue(a)
    /\ UNCHANGED <<API_KEY, effects, searchVars, inputVars, tRuns, cacheReads,
                   liveCalls, saveCalls, read1, live>>

(***************************************************************************)
(* The effects (lines 114-135) and the user.                               *)
(***************************************************************************)
\* Lines 130-134: the argument fetchMovies gets for a debounced value
\* (fetchMovies() takes the default, '').
QueryArg(d) == IF Trim(d) # <<>> THEN d ELSE <<>>

\* Lines 114-117, run once after the first render.
MountEffect ==
    /\ effects = 0
    /\ effects' = 1
    /\ FetchMoviesStart(<<>>)
    /\ FetchTrendingStart
    /\ UNCHANGED <<API_KEY, inputVars>>

\* ArmTimer without the cleanup: a timer still pending stays the one to fire.
ArmTimerKeepPending(t, v) == IF t.armed THEN t ELSE [armed |-> TRUE, value |-> v]

\* Lines 121-125: the cleanup of the previous run clears the pending timer t
\* (clearTimeout), the body arms a timer that will publish v.
ArmTimer(t, v) == [armed |-> TRUE, value |-> v]

\* Lines 120-126, as run after the first render.
DebounceEffect ==
    /\ effects = 1
    /\ effects' = 2
    /\ timer' = ArmTimer(timer, searchTerm)
    /\ UNCHANGED <<API_KEY, searchVars, trendingVars, searchTerm, debouncedSearchTerm,
                   changes, debouncedChanges>>

\* Lines 129-135, as run after the first render.
QueryEffect ==
    /\ effects = 2
    /\ effects' = 3
    /\ FetchMoviesStart(QueryArg(debouncedSearchTerm))
    /\ UNCHANGED <<API_KEY, inputVars, trendingVars>>

\* Line 148: the user changes the input to v; the effect of lines 120-126
\* runs again: its cleanup clears the pending timer, its body arms a new one.
\* max bounds the number of changes explored.
SetSearchTermUpTo(v, max) ==
    /\ effects = 3
    /\ changes < max
    /\ v # searchTerm
    /\ searchTerm' = v
    /\ changes' = changes + 1
    /\ timer' = ArmTimer(timer, v)
    /\ UNCHANGED <<API_KEY, effects, searchVars, trendingVars, debouncedSearchTerm,
                   debouncedChanges>>

SetSearchTerm(v) == SetSearchTermUpTo(v, MaxChanges)

\* TimerFire whose effect also calls fetchTrendingMovies.
TimerFireRefetch ==
    /\ effects = 3
    /\ timer.armed
    /\ timer' = [timer EXCEPT !.armed = FALSE]
    /\ IF timer.value # debouncedSearchTerm
         THEN /\ debouncedSearchTerm' = timer.value
              /\ debouncedChanges' = debouncedChanges + 1
              /\ FetchMoviesStart(QueryArg(timer.value))
              /\ tRuns' = tRuns + 1
              /\ cacheReads' = cacheReads + 1
              /\ tpc' = "read1"
              /\ UNCHANGED <<trendingMovies, liveCalls, saveCalls, read1, live, read2>>
         ELSE UNCHANGED <<debouncedSearchTerm, debouncedChanges, searchVars, trendingVars>>
    /\ UNCHANGED <<API_KEY, effects, searchTerm, changes>>

\* Lines 121-123: the timer fires; when the debounced value changes, the
\* effect of lines 129-135 runs.
TimerFire ==
    /\ effects = 3
    /\ timer.armed
    /\ timer' = [timer EXCEPT !.armed = FALSE]
    /\ IF timer.value # debouncedSearchTerm
         THEN /\ debouncedSearchTerm' = timer.value
              /\ debouncedChanges' = debouncedChanges + 1
              /\ FetchMoviesStart(QueryArg(timer.value))
         ELSE UNCHANGED <<debouncedSearchTerm, debouncedChanges, searchVars>>
    /\ UNCHANGED <<API_KEY, effects, trendingVars, searchTerm, changes>>

\* The effects and the user's input.
NextInput ==
    \/ MountEffect
    \/ DebounceEffect
    \/ QueryEffect
    \/ \E v \in Terms : SetSearchTerm(v)
    \/ TimerFire

\* The metadata provider and the cache store answer the Search Resolver.
NextSearchReturns ==
    \/ \E i \in DOMAIN calls, r \in FetchOutcomes : FetchReturn(i, r)
    \/ \E i \in DOMAIN calls : JsonFail(i)
    \/ \E i \in DOMAIN calls, data \in SearchBodies : JsonReturn(i, data)
    \/ \E i \in DOMAIN calls, ok \in BOOLEAN : WriteReturn(i, ok)

\* The cache store and the metadata provider answer the Trending Resolver.
NextTrendingReturns ==
    \/ \E a \in CacheAnswers : Read1Return(a)
    \/ \E r \in FetchOutcomes : LiveReturn(r)
    \/ LiveJsonFail
    \/ \E data \in TrendingBodies : LiveJsonReturn(data)
    \/ \E a \in CacheAnswers : Read2Return(a)

Next == NextInput \/ NextSearchReturns \/ NextTrendingReturns

\* The whole component.
Spec == Init /\ [][Next]_vars

(***************************************************************************)
(* The two resolvers share no variable: a step of NextSearchReturns reads  *)
(* and writes searchVars only (besides API_KEY and effects, which no       *)
(* return step changes), a step of NextTrendingReturns trendingVars only.  *)
(* Every behaviour of Spec therefore projects, on the variables of one     *)
(* resolver, to a behaviour of the specification below in which the other  *)
(* resolver's awaited calls stay pending (the code sets no timeout), and   *)
(* the claims about one resolver are checked under that specification.     *)
(***************************************************************************)
NextSearch == NextInput \/ NextSearchReturns

SpecSearch == Init /\ [][NextSearch]_vars

\* The most invocations of fetchMovies a session makes: two on mount, one for
\* each debounced change.
MaxCalls == MaxChanges + 2

\* A resumption of invocation i: one of its awaited calls settles.
ReturnOf(i) ==
    /\ i \in DOMAIN calls
    /\ \/ \E r \in FetchOutcomes : FetchReturn(i, r)
       \/ JsonFail(i)
       \/ \E data \in SearchBodies : JsonReturn(i, data)
       \/ \E ok \in BOOLEAN : WriteReturn(i, ok)

\* SpecSearch in which React runs the effects of the mount and every awaited
\* call of fetchMovies eventually returns or fails.
SpecSearchFair ==
    /\ SpecSearch
    /\ WF_vars(MountEffect)
    /\ WF_vars(DebounceEffect)
    /\ WF_vars(QueryEffect)
    /\ \A i \in 1..MaxCalls : WF_vars(ReturnOf(i))

NextTrending == NextInput \/ NextTrendingReturns

SpecTrending == Init /\ [][NextTrending]_vars

\* The effects and the user's input alone, every awaited call pending: the
\* input variables are written by these steps only, so longer bursts of
\* changes can be explored.
NextDebounce ==
    \/ MountEffect
    \/ DebounceEffect
    \/ QueryEffect
    \/ \E v \in Terms : SetSearchTermUpTo(v, MaxBurst)
    \/ TimerFire

SpecDebounce == Init /\ [][NextDebounce]_vars

\* The two resolvers together, in the page sessions in which the user types
\* at most the one query of JointTerms: the invocations of fetchMovies made
\* on mount and for that query and the invocation of fetchTrendingMovies,
\* their steps interleaved in every order.
JointTerms == {<<"a", "&">>}

NextJoint ==
    \/ MountEffect
    \/ DebounceEffect
    \/ QueryEffect
    \/ \E v \in JointTerms : SetSearchTerm(v)
    \/ TimerFire
    \/ NextSearchReturns
    \/ NextTrendingReturns

SpecJoint == Init /\ [][NextJoint]_vars

(***************************************************************************)
(* The Trending Resolver's claims, checked under SpecTrending.             *)
(***************************************************************************)
IsNonEmptyList(v) == v.tag = "array" /\ Len(v.val) > 0

\* C1: when the first cache read returns an empty list and the live feed
\* succeeds with a non-empty list, the trending list of the finished run is
\* the live feed's list.
C1_LiveResultsDisplayed ==
    (tpc = "done" /\ read1 = Arr(<<>>) /\ IsNonEmptyList(live)) => trendingMovies = live

\* C2: a failure of the persistence call on the live-success path triggers no
\* further cache read and leaves the live results as the trending list.
C2_PersistenceFailureHarmless ==
    saveCalls > 0 => (cacheReads = 1 /\ read2 = None /\ trendingMovies = live)

\* C5: when the first cache read throws and a credential is configured, the
\* live feed is called, and before any second cache read.
C5_CacheFailureFallsThroughToLive ==
    (read1 = Threw /\ Truthy(API_KEY)) =>
        (liveCalls = 1 /\ (cacheReads > 1 => live # None))

\* C6: when the first cache read returns a non-empty list, the run ends there:
\* the live feed is not called, nothing is persisted, no second cache read is
\* made, and the trending list is those entries in the order returned.
C6_CachePrecedence ==
    IsNonEmptyList(read1) =>
        (tpc = "done" /\ liveCalls = 0 /\ saveCalls = 0 /\ cacheReads = 1
            /\ trendingMovies = read1)

C6_Witness == tpc = "done" /\ read1 = Arr(<<3, 4>>) /\ trendingMovies = Arr(<<3, 4>>)

\* Every cache read of the run failed or returned nothing.
CacheFailedOrEmpty ==
    /\ read1 \in {Threw, Undefined, Arr(<<>>)}
    /\ read2 \in {None, Threw, Undefined, Arr(<<>>)}

\* The live feed was not called (no credential, or the cache threw), failed,
\* or returned nothing.
LiveFailedOrEmpty == live \in {None, Failed, Arr(<<>>)}

\* C7: the trending state is always a list; when the cache reads fail or are
\* empty and the live feed fails or is empty, the finished run leaves the
\* empty list; and the resolver sets no error message (under SpecTrending the
\* only other writer of errorMessage is fetchMovies failing as it starts,
\* without a credential or on a query that cannot be encoded).
C7_AlwaysAList ==
    /\ trendingMovies.tag = "array"
    /\ (tpc = "done" /\ CacheFailedOrEmpty /\ LiveFailedOrEmpty)
          => trendingMovies = Arr(<<>>)
    /\ \/ errorMessage = ""
       \/ \E i \in DOMAIN calls :
              calls[i].pc = "done" /\ calls[i].outcome \in {"ConfigError", "URIError"}

C7_Witness ==
    /\ tpc = "done"
    /\ read1 = Arr(<<>>)
    /\ live = Failed
    /\ read2 = Undefined
    /\ trendingMovies = Arr(<<>>)

(***************************************************************************)
(* The Search Resolver's claims, checked under SpecSearch.                 *)
(***************************************************************************)
\* Invocation i finishes in this step.
Completes(i) ==
    /\ calls'[i].pc = "done"
    /\ (i \in DOMAIN calls => calls[i].pc # "done")

\* Lines 163-173: what the All Movies section shows.
Render(loading, err, list) ==
    IF loading THEN <<"loading">>
    ELSE IF err # "" THEN <<"error", err>>
    ELSE <<"list", list>>

\* What the section shows after invocation c has run alone.
RenderAlone(c) ==
    CASE c.outcome = "Success" -> <<"list", Or(c.data.results, Arr(<<>>))>>
      [] c.outcome = "SemanticError" -> <<"error", Or(c.data.Error, Str(ErrFlag)).val>>
      [] OTHER -> <<"error", ErrFetch>>

\* C3: the settling of the counter-increment write, failure included, changes
\* neither the error message nor the movie list.
C3_CountFailureInvisible ==
    [][\A i \in DOMAIN calls :
          (calls[i].pc = "write" /\ calls'[i].pc = "done")
              => (errorMessage' = errorMessage /\ movieList' = movieList)]_vars

\* C4: when an invocation finishes after an invocation it overlapped with,
\* the section shows what the later finisher would have shown run alone.
C4_LastCompletionWins ==
    [][\A i \in 1..Len(calls') :
          (Completes(i) /\ \E j \in calls'[i].peers : calls'[j].pc = "done")
              => Render(isLoading', errorMessage', movieList') = RenderAlone(calls'[i])]_vars

\* C8: once the mount effects have run and before the debounced query
\* changes, fetchMovies was invoked once and fetchTrendingMovies once.
C8_OneCallEachOnMount ==
    (effects = 3 /\ debouncedChanges = 0) => (Len(calls) = 1 /\ tRuns = 1)

\* C9: when the parsed 2xx body of invocation i carries the error flag, the
\* step that receives it ends the invocation as failed: the error message is
\* the embedded one or else the generic one, the movie list is empty, the
\* loading flag is off and no counter-increment write was issued.
C9_FlaggedResponseFails ==
    [][\A i \in DOMAIN calls :
          (calls[i].pc = "json" /\ calls'[i].pc # "json"
              /\ calls'[i].data.Response = Str("False"))
          => /\ calls'[i].pc = "done"
             /\ calls'[i].outcome = "SemanticError"
             /\ errorMessage' = (IF calls'[i].data.Error.tag = "string"
                                   THEN calls'[i].data.Error.val ELSE ErrFlag)
             /\ errorMessage' # ""
             /\ movieList' = Arr(<<>>)
             /\ ~isLoading'
             /\ calls'[i].writes = <<>>]_vars

C9_Witness ==
    \E i \in DOMAIN calls :
        /\ calls[i].outcome = "SemanticError"
        /\ calls[i].data.Error = Str("Movie not found!")
        /\ lastDone = i
        /\ errorMessage = "Movie not found!"
        /\ movieList = Arr(<<>>)

\* The response of invocation c was a success with at least one result.
SucceededWithResults(c) ==
    /\ c.pc \in {"write", "done"}
    /\ c.data.Response # Str("False")
    /\ IsNonEmptyList(c.data.results)

\* C10: an invocation with a non-empty query and a successful response of at
\* least one result issues exactly one counter-increment write, keyed by the
\* query and the first result; an invocation with the empty query, a failed
\* one, or one with zero results issues none.
C10_OneWritePerCountedSearch ==
    \A i \in DOMAIN calls :
        IF calls[i].query # <<>> /\ SucceededWithResults(calls[i])
          THEN calls[i].writes = << <<calls[i].query, calls[i].data.results.val[1]>> >>
          ELSE calls[i].writes = <<>>

C10_Witness ==
    \E i \in DOMAIN calls :
        /\ calls[i].pc = "done"
        /\ calls[i].outcome = "Success"
        /\ calls[i].query = <<"a", "&">>
        /\ calls[i].writes = << <<(<<"a", "&">>), 2>> >>

\* The query has no lone surrogate: encodeURIComponent accepts it.
WellFormed(q) == \A k \in DOMAIN q : q[k] # LoneSurrogate

\* C11 as stated: every invocation issues exactly one network read and at
\* most one network write, whatever the configuration.
C11_OneReadAlways ==
    \A i \in DOMAIN calls :
        Len(calls[i].requests) = 1 /\ Len(calls[i].writes) <= 1

\* C11, amended: an invocation issues exactly one network read when a
\* credential is configured and its query can be percent-encoded, none
\* otherwise, and at most one network write.
C11_OneReadWhenConfigured ==
    \A i \in DOMAIN calls :
        /\ Len(calls[i].requests) =
              (IF Truthy(API_KEY) /\ WellFormed(calls[i].query) THEN 1 ELSE 0)
        /\ Len(calls[i].writes) <= 1
        /\ Len(calls[i].writes) <= Len(calls[i].requests)

C11_Witness ==
    \E i \in DOMAIN calls :
        /\ calls[i].pc = "done"
        /\ Len(calls[i].requests) = 1
        /\ Len(calls[i].writes) = 1

\* C13: with no credential configured every invocation has failed as soon as
\* it was made, without a network read or write, and leaves a non-empty error
\* message and the loading flag off.
C13_NoCredentialFailsAtOnce ==
    ~Truthy(API_KEY) =>
        /\ \A i \in DOMAIN calls :
              /\ calls[i].pc = "done"
              /\ calls[i].outcome = "ConfigError"
              /\ calls[i].requests = <<>>
              /\ calls[i].writes = <<>>
        /\ calls # <<>> => (errorMessage # "" /\ ~isLoading)

C13_Witness ==
    /\ API_KEY = Str("")
    /\ Len(calls) = 3
    /\ calls[3].query = <<"a", "&">>
    /\ calls[3].outcome = "ConfigError"
    /\ errorMessage = ErrFetch

(***************************************************************************)
(* The debounce's claim, checked under SpecDebounce.                       *)
(***************************************************************************)
\* C12: a change of the input starts no call and replaces the pending timer
\* by one for the new value, so at most one timer is pending and it is for
\* the current input; a call is started (after the mount) only by the firing
\* of that timer, that is for a value that stayed the input since its timer
\* was armed, one call per firing, with that value as its query (the empty
\* query for white space).
C12_DebounceQuietPeriod ==
    /\ [](timer.armed => timer.value = searchTerm)
    /\ [][effects = 3 =>
            /\ searchTerm' # searchTerm =>
                  /\ calls' = calls
                  /\ debouncedSearchTerm' = debouncedSearchTerm
                  /\ timer' = [armed |-> TRUE, value |-> searchTerm']
            /\ Len(calls') # Len(calls) =>
                  /\ Len(calls') = Len(calls) + 1
                  /\ timer.armed /\ ~timer'.armed
                  /\ timer.value = searchTerm /\ searchTerm' = searchTerm
                  /\ debouncedSearchTerm # searchTerm
                  /\ debouncedSearchTerm' = searchTerm
                  /\ calls'[Len(calls')].query =
                        (IF Trim(searchTerm) = <<>> THEN <<>> ELSE searchTerm)]_vars

\* A burst of two changes has ended in one call, for the last value.
C12_Witness ==
    /\ changes = 2
    /\ debouncedChanges = 1
    /\ ~timer.armed
    /\ Len(calls) = 3
    /\ searchTerm = <<"a", "&">>
    /\ debouncedSearchTerm = searchTerm
    /\ calls[3].query = searchTerm

(***************************************************************************)
(* More claims of the Trending Resolver, checked under SpecTrending.       *)
(***************************************************************************)
\* C14: the trending list is always, as a whole, the initial empty list, the
\* list one cache read returned, or the list the live feed returned.
C14_NeverMixed ==
    /\ trendingMovies.tag = "array"
    /\ trendingMovies \in {Arr(<<>>), read1, read2, live}

\* The live results were shown, then replaced as a whole by the cache's.
C14_Witness ==
    /\ tpc = "done"
    /\ live = Arr(<<2, 1>>)
    /\ read2 = Arr(<<3, 4>>)
    /\ trendingMovies = Arr(<<3, 4>>)

\* C15: fetchTrendingMovies is invoked once, by the mount effect, whatever
\* the input does afterwards, and its run makes at most two cache reads, one
\* live-feed call and one persistence attempt.
C15_TrendingRunsOnce ==
    /\ tRuns = (IF effects = 0 THEN 0 ELSE 1)
    /\ cacheReads <= 2
    /\ liveCalls <= 1
    /\ saveCalls <= 1

C15_Witness ==
    /\ debouncedChanges = 1
    /\ tpc = "done"
    /\ tRuns = 1
    /\ cacheReads = 2
    /\ liveCalls = 1
    /\ saveCalls = 1

(***************************************************************************)
(* The two resolvers together, checked under SpecJoint.                    *)
(***************************************************************************)
\* C16: a step of fetchMovies (one that changes an invocation's record)
\* leaves the trending list unchanged, and a step of fetchTrendingMovies (one
\* that moves it on; its first step shares the mount effect with the first
\* step of fetchMovies) leaves the movie list, the error message and the
\* loading flag unchanged.
C16_DisjointState ==
    [][/\ calls' # calls => trendingMovies' = trendingMovies
       /\ (tpc' # tpc /\ calls' = calls) =>
             (movieList' = movieList /\ errorMessage' = errorMessage
                 /\ isLoading' = isLoading)]_vars

\* Both resolvers have written their own state, their steps interleaved.
C16_Witness ==
    /\ tpc = "done"
    /\ trendingMovies = Arr(<<3, 4>>)
    /\ Len(calls) = 3
    /\ InFlight = {}
    /\ lastDone = 1
    /\ calls[3].writes # <<>>
    /\ movieList = Arr(<<2, 1>>)
    /\ errorMessage = ""

(***************************************************************************)
(* More claims of the Search Resolver, checked under SpecSearch.           *)
(***************************************************************************)
\* The character a server reads for the escape %hl.
Unescape(h, l) ==
    CASE <<h, l>> = <<"2", "0">> -> " "
      [] <<h, l>> = <<"2", "6">> -> "&"
      [] <<h, l>> = <<"2", "5">> -> "%"
      [] OTHER -> "?"

\* The percent-decoding of a query parameter.
RECURSIVE DecodeURIComponent(_)
DecodeURIComponent(s) ==
    IF s = <<>> THEN <<>>
    ELSE IF Head(s) = "%" /\ Len(s) >= 3
      THEN <<Unescape(s[2], s[3])>> \o DecodeURIComponent(SubSeq(s, 4, Len(s)))
      ELSE <<Head(s)>> \o DecodeURIComponent(Tail(s))

\* The characters that delimit or break a URL's query parameter.
IsUrlSafe(s) == \A k \in DOMAIN s : s[k] \notin {" ", "&", LoneSurrogate}

\* The request of call c is the one the query asks for: the discovery
\* endpoint for the empty query, the keyword search with the query
\* percent-encoded otherwise.
RequestsItsEndpoint(c) ==
    /\ Len(c.requests) = 1
    /\ IF c.query = <<>>
         THEN c.requests[1] = [path |-> "/discover/movie", query |-> <<>>]
         ELSE /\ c.requests[1].path = "/search/movie"
              /\ IsUrlSafe(c.requests[1].query)
              /\ ~IsUrlSafe(c.query) => c.requests[1].query # c.query
              /\ DecodeURIComponent(c.requests[1].query) = c.query

\* C17, as stated and read for a configured credential: every invocation
\* requests the endpoint its query asks for, the discovery endpoint for the
\* empty query and the keyword search with the percent-encoded query
\* otherwise, and no invocation is made with a query of white space only.
C17_AlwaysRequestsEndpoint ==
    HasCredential(API_KEY) =>
        \A i \in DOMAIN calls :
            /\ RequestsItsEndpoint(calls[i])
            /\ Trim(calls[i].query) = <<>> => calls[i].query = <<>>

\* C17, amended: an invocation issues no request when no credential is
\* configured or when its query has a lone surrogate, which
\* encodeURIComponent rejects; every other invocation requests the endpoint
\* its query asks for; no invocation is made with a query of white space
\* only.
C17_EndpointChoice ==
    \A i \in DOMAIN calls :
        /\ IF HasCredential(API_KEY) /\ WellFormed(calls[i].query)
             THEN RequestsItsEndpoint(calls[i])
             ELSE calls[i].requests = <<>>
        /\ Trim(calls[i].query) = <<>> => calls[i].query = <<>>

\* The mount has requested the discovery endpoint and the typed query "a&"
\* the keyword search, encoded.
C17_Witness ==
    /\ Len(calls) = 3
    /\ calls[1].requests = << [path |-> "/discover/movie", query |-> <<>>] >>
    /\ calls[3].query = <<"a", "&">>
    /\ calls[3].requests =
          << [path |-> "/search/movie", query |-> <<"a", "%", "2", "6">>] >>

\* C18: while an invocation of fetchMovies is in flight, isLoading is true.
C18_LoadingWhileInFlight == InFlight # {} => isLoading

\* C19: when every awaited call eventually returns or fails, every
\* invocation of fetchMovies eventually finishes, and whenever none is in
\* flight isLoading is false.
C19_EveryCallFinishes ==
    /\ \A i \in 1..MaxCalls :
          [](i \in DOMAIN calls => <>(i \in DOMAIN calls /\ calls[i].pc = "done"))
    /\ [](InFlight = {} => ~isLoading)

\* Three invocations have finished, by a write failure, an error flag and a
\* transport error, and the loading flag is down.
C19_Witness ==
    /\ Len(calls) = 3
    /\ InFlight = {}
    /\ calls[1].outcome = "TransportError"
    /\ calls[2].outcome = "SemanticError"
    /\ calls[3].outcome = "PersistenceError"
    /\ ~isLoading

\* The outcomes of the exception path taken before line 57 sets the list.
FailsBeforeList == {"ConfigError", "URIError", "TransportError"}

\* C20: a step that ends an invocation of fetchMovies through the exception
\* path before the list is set (no credential, a query that cannot be
\* encoded, a non-2xx response, a network or parsing error) leaves the movie
\* list unchanged, as every earlier step of that invocation does; the movie
\* list changes only in the step in which an invocation receives its parsed
\* response, to the whole of the fetched results (the empty list when the
\* response has none) or to the empty list when the response is flagged.
C20_ListReplacedAsAWhole ==
    [][/\ \A i \in DOMAIN calls' :
             (/\ calls'[i].pc = "done"
              /\ i \in DOMAIN calls => calls[i].pc # "done"
              /\ calls'[i].outcome \in FailsBeforeList) => movieList' = movieList
       /\ movieList' # movieList =>
             \E i \in DOMAIN calls :
                 /\ calls[i].pc = "json"
                 /\ calls'[i].pc \in {"write", "done"}
                 /\ calls'[i].outcome \notin FailsBeforeList
                 /\ movieList' = IF calls'[i].data.Response = Str("False")
                                   THEN Arr(<<>>)
                                   ELSE IF calls'[i].data.results = Undefined
                                   THEN Arr(<<>>)
                                   ELSE calls'[i].data.results]_vars

\* An invocation has failed on its transport after an overlapping one set
\* the list, and the list is still the one that was set.
C20_Witness ==
    /\ Len(calls) >= 2
    /\ calls[1].outcome = "Success"
    /\ calls[2].outcome = "TransportError"
    /\ lastDone = 2
    /\ movieList = Arr(<<2, 1>>)

====
